---- MODULE Spec2Model ----
(***************************************************************************)
(* CourseCraft backend: the generation workers (ai_generation/tasks.py),   *)
(* the LLM adapter's call pattern (ai_generation/services.py), the start   *)
(* endpoints (ai_generation/views.py, courses/views.py), the progress      *)
(* broadcast (send_progress_update, GenerationConsumer) and the ownership  *)
(* checks of the CRUD layer (courses/views.py, courses/serializers.py).    *)
(***************************************************************************)
EXTENDS Integers, Sequences, FiniteSets, TLC

\* ------------------------------------------------------------------ bounds
\* Largest number of modules the outline call returns.
MaxModules == 3
\* Largest number of lessons a lesson-content call returns.
MaxLessons == 5
\* Largest number of questions the quiz call returns.
MaxQuestions == 5

\* An event field the publisher did not put into the payload.
Absent == -1

VARIABLES
    \* one worker run (SpecRun)
    kind,        \* which worker runs: "course", "module", "quiz"
    pc,          \* the worker's position
    row,         \* the GenerationTask row
    writes,      \* progress of every task.save(), in order
    pubs,        \* every event handed to send_progress_update, in order
    modules,     \* Module rows of the course, each with its lessons
    quiz,        \* Quiz row of the course with its questions
    courseStatus,\* Course.status
    tx,          \* rows written inside an open transaction.atomic() block
    nmod,        \* len(modules_data)
    idx,         \* loop index over modules_data
    lessonsData, \* len(lessons_data) of the last lesson-content call
    questionsData, \* len(questions_data)
    outlineCalls, lessonCalls, quizCalls, \* LLM invocations made by the run
    structFailed,\* modules whose structured-output call failed
    llmFailed,   \* an LLM call of the run ended in an exception
    stages,      \* stages the course run entered, in order
    result,      \* what the worker returned
    gone,        \* rows from before the run that the run has deleted: "lessons", "questions"
    \* the start endpoints and the task table (SpecApi)
    tasks,       \* GenerationTask rows, in creation order
    reqs,        \* requests that passed their check and have not yet created a task
    queue,       \* task ids handed to .delay() and not yet picked up
    courseSt,    \* Course.status of the course
    moduleSt,    \* Module.generation_status of its module
    quizSt,      \* Quiz.generation_status of its quiz
    writers,     \* users whose launched runs deleted or created content of the course
    resp,        \* the last HTTP response
    actors,      \* the users who send requests
    \* the progress broadcast (SpecWs)
    conns,       \* each consumer: closed, or open with the course id of its URL
    inbox,       \* the generation_update messages each consumer has been sent
    lastPub,     \* the last send_progress_update: task, consumers then, receivers
    \* the CRUD endpoints (SpecCrud)
    quizRows,    \* Quiz rows: the course each is under and whose request put it there
    moduleGs,    \* Module.generation_status of each course's module
    crudResp,    \* the last response of a CRUD endpoint
    \* courses: creation, status changes, lists (SpecCourses)
    courseRows,  \* Course rows, in creation order
    courseTasks, \* GenerationTask rows the post_save handler created
    courseRuns,  \* task ids handed to generate_course_content.delay, in order
    lastResp,    \* the last response of a course, list or retrieve request
    \* LLM configurations (SpecLlm)
    configs,     \* LLMConfig rows
    saves,       \* the save of each config that is under way, if any
    \* the consumer's status replies (SpecStatus)
    lastStatus   \* the last connect or get_status: consumer, message sent, task ids

runVars == <<kind, pc, row, writes, pubs, modules, quiz, courseStatus, tx, nmod, idx,
             lessonsData, questionsData, outlineCalls, lessonCalls, quizCalls,
             structFailed, llmFailed, stages, result, gone>>

apiVars == <<tasks, reqs, queue, courseSt, moduleSt, quizSt, writers, resp, actors>>

wsVars == <<conns, inbox, lastPub>>
crudVars == <<quizRows, moduleGs, crudResp>>
courseVars == <<courseRows, courseTasks, courseRuns, lastResp>>
llmVars == <<configs, saves>>
statVars == <<lastStatus>>

\* The variables a worker run leaves alone.
notRun == <<apiVars, wsVars, crudVars, courseVars, llmVars, statVars>>
\* The variables the start endpoints leave alone.
notApi == <<runVars, wsVars, crudVars, courseVars, llmVars, statVars>>
\* The variables the broadcast leaves alone.
notWs == <<runVars, apiVars, crudVars, courseVars, llmVars>>
\* The variables the CRUD endpoints leave alone.
notCrud == <<runVars, apiVars, wsVars, courseVars, llmVars, statVars>>
\* The variables the course endpoints leave alone.
notCourse == <<runVars, apiVars, wsVars, crudVars, llmVars, statVars>>
\* The variables an LLMConfig save leaves alone.
notLlm == <<runVars, apiVars, wsVars, crudVars, courseVars, statVars>>

runContent == <<modules, quiz, courseStatus, tx>>
runLoop == <<nmod, idx, lessonsData, questionsData>>
runLlm == <<outlineCalls, lessonCalls, quizCalls, structFailed, llmFailed>>

Kinds == {"course", "module", "quiz"}

\* ------------------------------------------------------- rows and events
\* GenerationTask defaults as every creator sets them: pending/creating/0.
NewTaskRow == [status |-> "pending", stage |-> "creating", progress |-> 0, err |-> {}]

ModuleRow(n, gs) == [lessons |-> n, gs |-> gs]
NoQuiz == [exists |-> FALSE, gs |-> "none", questions |-> 0]
NoTx == [open |-> FALSE, n |-> 0]

\* task.save(): the whole row is written, its progress included.
Save(r) ==
    /\ row' = r
    /\ writes' = Append(writes, r.progress)

\* send_progress_update(task_id, data): the payload, with the row as it is
\* stored at the moment of the group_send.
Event(status, stage, progress) ==
    [status |-> status, stage |-> stage, progress |-> progress,
     rowStatus |-> row.status, rowStage |-> row.stage, rowProgress |-> row.progress]

Publish(status, stage, progress) ==
    pubs' = Append(pubs, Event(status, stage, progress))

\* A step that only saves the row.
SaveStep(k, from, to, r) ==
    /\ kind = k /\ pc = from
    /\ Save(r)
    /\ pc' = to
    /\ UNCHANGED <<kind, gone, pubs, runContent, runLoop, runLlm, stages, result, notRun>>

\* A step that only publishes an event.
PubStep(k, from, to, status, stage, progress) ==
    /\ kind = k /\ pc = from
    /\ Publish(status, stage, progress)
    /\ pc' = to
    /\ UNCHANGED <<kind, gone, row, writes, runContent, runLoop, runLlm, stages, result, notRun>>

\* Where each worker's except clause begins.
ExceptPc(k) ==
    CASE k = "course" -> "c_exc"
      [] k = "module" -> "m_exc"
      [] k = "quiz" -> "q_exc"

\* -------------------------------------------------- generate_course_content
\* task.status = "running"; task.save()
CourseStart ==
    SaveStep("course", "c_start", "c_pub0", [row EXCEPT !.status = "running"])

CoursePubInitial ==
    PubStep("course", "c_pub0", "c_pub2", "running", "creating", 0)

CoursePubClearing ==
    PubStep("course", "c_pub2", "c_clear", "running", "creating", 2)

\* course.modules.all().delete(); course.quiz.delete(); AIGenerationService()
CourseClear ==
    /\ kind = "course" /\ pc = "c_clear"
    /\ modules' = <<>>
    /\ quiz' = NoQuiz
    /\ gone' = {"lessons", "questions"}
    /\ pc' = "c_save5"
    /\ UNCHANGED <<kind, row, writes, pubs, courseStatus, tx, runLoop, runLlm, stages,
                   result, notRun>>

\* Stage 1: current_stage = "creating", progress = 5
CourseSaveOutlineStart ==
    /\ kind = "course" /\ pc = "c_save5"
    /\ Save([row EXCEPT !.stage = "creating", !.progress = 5])
    /\ stages' = Append(stages, "outline")
    /\ pc' = "c_pub5"
    /\ UNCHANGED <<kind, gone, pubs, runContent, runLoop, runLlm, result, notRun>>

CoursePubOutlineStart ==
    PubStep("course", "c_pub5", "c_outline", "running", "creating", 5)

\* ai_service.generate_course_outline: one invoke, then json.loads of the reply.
CourseOutlineCall ==
    /\ kind = "course" /\ pc = "c_outline"
    /\ outlineCalls' = outlineCalls + 1
    /\ \/ \E n \in 0..MaxModules :
            /\ nmod' = n
            /\ pc' = "c_save20"
            /\ UNCHANGED llmFailed
       \/ /\ llmFailed' = TRUE
          /\ pc' = ExceptPc(kind)
          /\ UNCHANGED nmod
    /\ UNCHANGED <<kind, gone, row, writes, pubs, runContent, idx, lessonsData, questionsData,
                   lessonCalls, quizCalls, structFailed, stages, result, notRun>>

CourseSaveOutlineDone ==
    SaveStep("course", "c_save20", "c_pub20", [row EXCEPT !.progress = 20])

CoursePubOutlineDone ==
    PubStep("course", "c_pub20", "c_begin_modules", "running", "creating", 20)

\* Stage 2: task.save(); progress_per_module = 50 / total_modules
CourseBeginModules ==
    /\ kind = "course" /\ pc = "c_begin_modules"
    /\ Save(row)
    /\ stages' = Append(stages, "modules")
    /\ IF nmod = 0
       THEN /\ pc' = ExceptPc(kind)      \* ZeroDivisionError
            /\ UNCHANGED idx
       ELSE /\ pc' = "c_mod_create"
            /\ idx' = 1
    /\ UNCHANGED <<kind, gone, pubs, runContent, nmod, lessonsData, questionsData, runLlm,
                   result, notRun>>

\* Module.objects.create(..., order=idx, generation_status="generating")
CourseModuleCreate ==
    /\ kind = "course" /\ pc = "c_mod_create"
    /\ modules' = Append(modules, ModuleRow(0, "generating"))
    /\ pc' = "lessons_call"
    /\ UNCHANGED <<kind, gone, row, writes, pubs, quiz, courseStatus, tx, runLoop, runLlm,
                   stages, result, notRun>>

\* for lesson_data in lessons_data: Lesson.objects.create(...)
CourseLessonsCreate ==
    /\ kind = "course" /\ pc = "c_lessons_create"
    /\ modules' = [modules EXCEPT ![Len(modules)].lessons = lessonsData]
    /\ pc' = "c_mod_done"
    /\ UNCHANGED <<kind, gone, row, writes, pubs, quiz, courseStatus, tx, runLoop, runLlm,
                   stages, result, notRun>>

\* module.generation_status = "completed"; module.save()
CourseModuleDone ==
    /\ kind = "course" /\ pc = "c_mod_done"
    /\ modules' = [modules EXCEPT ![Len(modules)].gs = "completed"]
    /\ pc' = "c_mod_save"
    /\ UNCHANGED <<kind, gone, row, writes, pubs, quiz, courseStatus, tx, runLoop, runLlm,
                   stages, result, notRun>>

\* The progress after a module rounded up instead of down.
ModuleProgressUp(i, n) == 20 + (((i * 50) + n - 1) \div n)

\* int(20 + idx * (50 / total_modules))
ModuleProgress(i, n) == 20 + ((i * 50) \div n)

CourseModuleSave ==
    SaveStep("course", "c_mod_save", "c_mod_pub",
             [row EXCEPT !.progress = ModuleProgress(idx, nmod)])

\* The loop leaves one module early.
LoopStopsEarly(i, n) == i + 1 < n

\* for idx, module_data in enumerate(modules_data, 1): is there a next module?
LoopContinues(i, n) == i < n

CourseModulePub ==
    /\ kind = "course" /\ pc = "c_mod_pub"
    /\ Publish("running", "creating", ModuleProgress(idx, nmod))
    /\ IF LoopContinues(idx, nmod)
       THEN /\ idx' = idx + 1
            /\ pc' = "c_mod_create"
       ELSE /\ idx' = idx
            /\ pc' = "c_save75"
    /\ UNCHANGED <<kind, gone, row, writes, runContent, nmod, lessonsData, questionsData,
                   runLlm, stages, result, notRun>>

\* Stage 3: current_stage = "reviewing", progress = 75
CourseSaveQuizStart ==
    /\ kind = "course" /\ pc = "c_save75"
    /\ Save([row EXCEPT !.stage = "reviewing", !.progress = 75])
    /\ stages' = Append(stages, "quiz")
    /\ pc' = "c_pub75"
    /\ UNCHANGED <<kind, gone, pubs, runContent, runLoop, runLlm, result, notRun>>

CoursePubQuizStart ==
    PubStep("course", "c_pub75", "c_quiz_create", "running", "reviewing", 75)

\* Quiz.objects.create(course=course, generation_status="generating")
CourseQuizCreate ==
    /\ kind = "course" /\ pc = "c_quiz_create"
    /\ quiz' = [exists |-> TRUE, gs |-> "generating", questions |-> 0]
    /\ pc' = "c_quiz_call"
    /\ UNCHANGED <<kind, gone, row, writes, pubs, modules, courseStatus, tx, runLoop, runLlm,
                   stages, result, notRun>>

\* ai_service.generate_quiz_questions: one invoke, then json.loads of the reply.
QuizLlmCall(next) ==
    /\ quizCalls' = quizCalls + 1
    /\ \/ \E n \in 0..MaxQuestions :
            /\ questionsData' = n
            /\ pc' = next
            /\ UNCHANGED llmFailed
       \/ /\ llmFailed' = TRUE
          /\ pc' = ExceptPc(kind)
          /\ UNCHANGED questionsData
    /\ UNCHANGED <<kind, gone, row, writes, pubs, runContent, nmod, idx, lessonsData,
                   outlineCalls, lessonCalls, structFailed, stages, result, notRun>>

CourseQuizCall ==
    /\ kind = "course" /\ pc = "c_quiz_call"
    /\ QuizLlmCall("c_questions_create")

\* Question.objects.create / Answer.objects.create for every question
CourseQuestionsCreate ==
    /\ kind = "course" /\ pc = "c_questions_create"
    /\ quiz' = [quiz EXCEPT !.questions = questionsData]
    /\ pc' = "c_quiz_done"
    /\ UNCHANGED <<kind, gone, row, writes, pubs, modules, courseStatus, tx, runLoop, runLlm,
                   stages, result, notRun>>

\* quiz.generation_status = "completed"; quiz.save()
CourseQuizDone ==
    /\ kind = "course" /\ pc = "c_quiz_done"
    /\ quiz' = [quiz EXCEPT !.gs = "completed"]
    /\ pc' = "c_save90"
    /\ UNCHANGED <<kind, gone, row, writes, pubs, modules, courseStatus, tx, runLoop, runLlm,
                   stages, result, notRun>>

CourseSaveQuizDone ==
    SaveStep("course", "c_save90", "c_pub90", [row EXCEPT !.progress = 90])

CoursePubQuizDone ==
    PubStep("course", "c_pub90", "c_save95", "running", "reviewing", 90)

\* Stage 4: current_stage = "completed", progress = 95
CourseSaveFinalizing ==
    /\ kind = "course" /\ pc = "c_save95"
    /\ Save([row EXCEPT !.stage = "completed", !.progress = 95])
    /\ stages' = Append(stages, "finalize")
    /\ pc' = "c_draft"
    /\ UNCHANGED <<kind, gone, pubs, runContent, runLoop, runLlm, result, notRun>>

\* course.status = "draft"; course.save()
CourseSetDraft ==
    /\ kind = "course" /\ pc = "c_draft"
    /\ courseStatus' = "draft"
    /\ pc' = "c_complete"
    /\ UNCHANGED <<kind, gone, row, writes, pubs, modules, quiz, tx, runLoop, runLlm, stages,
                   result, notRun>>

\* task.status = "completed"; task.progress = 100
CourseComplete ==
    SaveStep("course", "c_complete", "c_pub100",
             [row EXCEPT !.status = "completed", !.progress = 100])

CoursePubCompleted ==
    PubStep("course", "c_pub100", "c_ret", "completed", "completed", 100)

\* except Exception: task.status = "failed"; error_message = message + traceback
CourseHandlerMark ==
    SaveStep("course", "c_exc", "c_exc_pub",
             [row EXCEPT !.status = "failed", !.err = {"message", "traceback"}])

\* the failed event carries the re-read row's stage and progress
CourseHandlerPub ==
    PubStep("course", "c_exc_pub", "ret_fail", "failed", row.stage, row.progress)

\* ------------------------------- AIGenerationService.generate_module_content
\* The module whose lessons the run is generating.
CurModule == IF kind = "course" THEN idx ELSE 1

AfterLessons(k) == IF k = "course" THEN "c_lessons_create" ELSE "m_tx_body"

\* Lesson counts drawn for a module of a course run: the course run never
\* reads the count, so the smallest and the largest stand for all.
LessonCounts(k) == IF k = "course" THEN {1, MaxLessons} ELSE 1..MaxLessons

\* try: self.llm.with_structured_output(LessonsList) ... chain.invoke(...)
\* Any exception in it, the ValueError for zero lessons included, reaches the
\* except clause of generate_module_content, which calls the model again.
LessonsStructuredCall ==
    /\ kind \in {"course", "module"} /\ pc = "lessons_call"
    /\ lessonCalls' = [lessonCalls EXCEPT ![CurModule] = @ + 1]
    /\ \/ \E n \in LessonCounts(kind) :
            /\ lessonsData' = n
            /\ pc' = AfterLessons(kind)
            /\ UNCHANGED structFailed
       \/ /\ structFailed' = structFailed \cup {CurModule}
          /\ pc' = "lessons_fallback"
          /\ UNCHANGED lessonsData
    /\ UNCHANGED <<kind, gone, row, writes, pubs, runContent, nmod, idx, questionsData,
                   outlineCalls, quizCalls, llmFailed, stages, result, notRun>>

\* A failing fallback call starts the lesson-content call over.
FallbackRetries(k) == "lessons_call"

\* Where the run goes when the fallback call raises (invoke error, JSON that
\* the repair cannot fix, zero lessons): out of generate_module_content.
FallbackFailPc(k) == ExceptPc(k)

\* except Exception: chain = prompt | self.llm; chain.invoke(...); json.loads
LessonsFallbackCall ==
    /\ kind \in {"course", "module"} /\ pc = "lessons_fallback"
    /\ lessonCalls' = [lessonCalls EXCEPT ![CurModule] = @ + 1]
    /\ \/ \E n \in LessonCounts(kind) :
            /\ lessonsData' = n
            /\ pc' = AfterLessons(kind)
            /\ UNCHANGED llmFailed
       \/ /\ llmFailed' = TRUE
          /\ pc' = FallbackFailPc(kind)
          /\ UNCHANGED lessonsData
    /\ UNCHANGED <<kind, gone, row, writes, pubs, runContent, nmod, idx, questionsData,
                   outlineCalls, quizCalls, structFailed, stages, result, notRun>>

\* -------------------------------------------------- generate_module_lessons
ModuleStart ==
    SaveStep("module", "m_start", "m_pub10", [row EXCEPT !.status = "running"])

ModulePubStart ==
    PubStep("module", "m_pub10", "m_generating", "running", "creating", 10)

\* AIGenerationService(); module.generation_status = "generating"; module.save()
ModuleMarkGenerating ==
    /\ kind = "module" /\ pc = "m_generating"
    /\ modules' = [modules EXCEPT ![1].gs = "generating"]
    /\ pc' = "lessons_call"
    /\ UNCHANGED <<kind, gone, row, writes, pubs, quiz, courseStatus, tx, runLoop, runLlm,
                   stages, result, notRun>>

\* The old lessons are deleted before the atomic block is entered.
ModuleDeletesFirst ==
    /\ kind = "module" /\ pc = "m_tx_body"
    /\ modules' = [modules EXCEPT ![1].lessons = 0]
    /\ gone' = gone \cup {"lessons"}
    /\ tx' = [open |-> TRUE, n |-> lessonsData]
    /\ idx' = lessonsData
    /\ pc' = "m_tx_pub"
    /\ UNCHANGED <<kind, row, writes, pubs, quiz, courseStatus, nmod,
                   lessonsData, questionsData, runLlm, stages, result, notRun>>

\* with transaction.atomic(): delete the old lessons, create the new ones
ModuleTxBody ==
    /\ kind = "module" /\ pc = "m_tx_body"
    /\ tx' = [open |-> TRUE, n |-> lessonsData]
    /\ idx' = lessonsData
    /\ pc' = "m_tx_pub"
    /\ UNCHANGED <<kind, gone, row, writes, pubs, modules, quiz, courseStatus, nmod,
                   lessonsData, questionsData, runLlm, stages, result, notRun>>

\* progress = 20 + (idx * 25), computed once, after the loop
LessonsProgress(i) == 20 + (i * 25)

ModuleTxPub ==
    PubStep("module", "m_tx_pub", "m_tx_commit", "running", "creating",
            LessonsProgress(idx))

\* leaving the atomic block commits
ModuleTxCommit ==
    /\ kind = "module" /\ pc = "m_tx_commit"
    /\ modules' = [modules EXCEPT ![1].lessons = tx.n]
    /\ gone' = gone \cup {"lessons"}
    /\ tx' = NoTx
    /\ pc' = "m_completed"
    /\ UNCHANGED <<kind, row, writes, pubs, quiz, courseStatus, runLoop, runLlm, stages,
                   result, notRun>>

ModuleMarkCompleted ==
    /\ kind = "module" /\ pc = "m_completed"
    /\ modules' = [modules EXCEPT ![1].gs = "completed"]
    /\ pc' = "m_complete"
    /\ UNCHANGED <<kind, gone, row, writes, pubs, quiz, courseStatus, tx, runLoop, runLlm,
                   stages, result, notRun>>

ModuleComplete ==
    SaveStep("module", "m_complete", "m_pub100",
             [row EXCEPT !.status = "completed", !.progress = 100, !.stage = "completed"])

ModulePubCompleted ==
    PubStep("module", "m_pub100", "m_ret", "completed", "completed", 100)

\* except Exception: task.status = "failed"; task.error_message = str(e)
ModuleHandlerMark ==
    SaveStep("module", "m_exc", "m_exc_entity",
             [row EXCEPT !.status = "failed", !.err = {"message"}])

\* try: module.generation_status = "failed"; module.save()  except: pass
ModuleHandlerEntity ==
    /\ kind = "module" /\ pc = "m_exc_entity"
    /\ \/ modules' = [modules EXCEPT ![1].gs = "failed"]
       \/ UNCHANGED modules
    /\ pc' = "m_exc_pub"
    /\ UNCHANGED <<kind, gone, row, writes, pubs, quiz, courseStatus, tx, runLoop, runLlm,
                   stages, result, notRun>>

\* send_progress_update(task_id, {"status": "failed", "message": ...})
ModuleHandlerPub ==
    PubStep("module", "m_exc_pub", "ret_fail", "failed", "absent", Absent)

\* --------------------------------------------- generate_quiz_questions_task
QuizStart ==
    SaveStep("quiz", "q_start", "q_pub10", [row EXCEPT !.status = "running"])

QuizPubStart ==
    PubStep("quiz", "q_pub10", "q_generating", "running", "creating", 10)

\* AIGenerationService(); quiz.generation_status = "generating"; quiz.save()
QuizMarkGenerating ==
    /\ kind = "quiz" /\ pc = "q_generating"
    /\ quiz' = [quiz EXCEPT !.gs = "generating"]
    /\ pc' = "q_call"
    /\ UNCHANGED <<kind, gone, row, writes, pubs, modules, courseStatus, tx, runLoop, runLlm,
                   stages, result, notRun>>

QuizCall ==
    /\ kind = "quiz" /\ pc = "q_call"
    /\ QuizLlmCall("q_pub50")

QuizPubCreating ==
    PubStep("quiz", "q_pub50", "q_tx_body", "running", "creating", 50)

\* with transaction.atomic(): delete the old questions, create the new ones
QuizTxBody ==
    /\ kind = "quiz" /\ pc = "q_tx_body"
    /\ tx' = [open |-> TRUE, n |-> questionsData]
    /\ pc' = "q_tx_pub"
    /\ UNCHANGED <<kind, gone, row, writes, pubs, modules, quiz, courseStatus, runLoop, runLlm,
                   stages, result, notRun>>

Min(a, b) == IF a < b THEN a ELSE b

\* progress = 50 + (question_idx * 10); published as min(progress, 90)
QuestionsProgress(q) == Min(50 + (q * 10), 90)

\* question_idx is bound by the loop: with no question the line raises
\* NameError inside the atomic block, which rolls back.
QuizTxPub ==
    /\ kind = "quiz" /\ pc = "q_tx_pub"
    /\ IF questionsData = 0
       THEN /\ tx' = NoTx
            /\ pc' = ExceptPc(kind)
            /\ UNCHANGED pubs
       ELSE /\ Publish("running", "creating", QuestionsProgress(questionsData))
            /\ pc' = "q_tx_commit"
            /\ UNCHANGED tx
    /\ UNCHANGED <<kind, gone, row, writes, modules, quiz, courseStatus, runLoop, runLlm,
                   stages, result, notRun>>

QuizTxCommit ==
    /\ kind = "quiz" /\ pc = "q_tx_commit"
    /\ quiz' = [quiz EXCEPT !.questions = tx.n]
    /\ gone' = gone \cup {"questions"}
    /\ tx' = NoTx
    /\ pc' = "q_completed"
    /\ UNCHANGED <<kind, row, writes, pubs, modules, courseStatus, runLoop, runLlm,
                   stages, result, notRun>>

QuizMarkCompleted ==
    /\ kind = "quiz" /\ pc = "q_completed"
    /\ quiz' = [quiz EXCEPT !.gs = "completed"]
    /\ pc' = "q_complete"
    /\ UNCHANGED <<kind, gone, row, writes, pubs, modules, courseStatus, tx, runLoop, runLlm,
                   stages, result, notRun>>

QuizComplete ==
    SaveStep("quiz", "q_complete", "q_pub100",
             [row EXCEPT !.status = "completed", !.progress = 100, !.stage = "completed"])

QuizPubCompleted ==
    PubStep("quiz", "q_pub100", "q_ret", "completed", "completed", 100)

\* except Exception: task.status = "failed"; task.error_message = str(e)
QuizHandlerMark ==
    SaveStep("quiz", "q_exc", "q_exc_entity",
             [row EXCEPT !.status = "failed", !.err = {"message"}])

\* try: quiz.generation_status = "failed"; quiz.save()  except: pass
QuizHandlerEntity ==
    /\ kind = "quiz" /\ pc = "q_exc_entity"
    /\ \/ quiz' = [quiz EXCEPT !.gs = "failed"]
       \/ UNCHANGED quiz
    /\ pc' = "q_exc_pub"
    /\ UNCHANGED <<kind, gone, row, writes, pubs, modules, courseStatus, tx, runLoop, runLlm,
                   stages, result, notRun>>

QuizHandlerPub ==
    PubStep("quiz", "q_exc_pub", "ret_fail", "failed", "absent", Absent)

\* ------------------------------------------------ exceptions and returns
\* The statements of the try bodies: each may raise (database, channel layer,
\* a missing key in the model's reply). The LLM calls raise in their own steps.
CourseBodyPcs ==
    {"c_start", "c_pub0", "c_pub2", "c_clear", "c_save5", "c_pub5", "c_save20", "c_pub20",
     "c_begin_modules", "c_mod_create", "c_lessons_create", "c_mod_done", "c_mod_save",
     "c_mod_pub", "c_save75", "c_pub75", "c_quiz_create", "c_questions_create",
     "c_quiz_done", "c_save90", "c_pub90", "c_save95", "c_draft", "c_complete", "c_pub100"}
ModuleBodyPcs ==
    {"m_start", "m_pub10", "m_generating", "m_tx_body", "m_tx_pub", "m_tx_commit",
     "m_completed", "m_complete", "m_pub100"}
QuizBodyPcs ==
    {"q_start", "q_pub10", "q_generating", "q_pub50", "q_tx_body", "q_tx_pub",
     "q_tx_commit", "q_completed", "q_complete", "q_pub100"}
LlmPcs == {"c_outline", "c_quiz_call", "q_call", "lessons_call", "lessons_fallback"}
BodyPcs == CourseBodyPcs \cup ModuleBodyPcs \cup QuizBodyPcs

\* A statement of the try body raises: control moves to the except clause and
\* an open atomic block rolls back.
Raise ==
    /\ pc \in BodyPcs
    /\ pc' = ExceptPc(kind)
    /\ tx' = NoTx
    /\ UNCHANGED <<kind, gone, row, writes, pubs, modules, quiz, courseStatus, runLoop, runLlm,
                   stages, result, notRun>>

\* The handlers' own try ... except: pass: a failing get/save or group_send
\* inside the handler is swallowed.
HandlerSwallow ==
    /\ pc \in {"c_exc", "c_exc_pub", "m_exc", "m_exc_pub", "q_exc", "q_exc_pub"}
    /\ pc' = "ret_fail"
    /\ UNCHANGED <<kind, gone, row, writes, pubs, runContent, runLoop, runLlm, stages, result,
                   notRun>>

\* return {"success": True, ...}
ReturnSuccess ==
    /\ pc \in {"c_ret", "m_ret", "q_ret"}
    /\ result' = "success"
    /\ pc' = "done"
    /\ UNCHANGED <<kind, gone, row, writes, pubs, runContent, runLoop, runLlm, stages, notRun>>

\* return {"success": False, "error": error_message}
ReturnFailure ==
    /\ pc = "ret_fail"
    /\ result' = "failure"
    /\ pc' = "done"
    /\ UNCHANGED <<kind, gone, row, writes, pubs, runContent, runLoop, runLlm, stages, notRun>>


\* ------------------------------------------ start endpoints and task table
\* Largest number of task rows.
MaxTasks == 2

Users == {"alice", "bob"}
\* Course.owner of the course; it has one module and at most one quiz.
Owner == "alice"
TheCourse == "c1"
TheModule == "m1"
TheQuiz == "z1"
Null == "null"

\* The check looks for running tasks only.
RunningOnly == {"running"}

\* status__in=['pending', 'running']
ActiveStatuses == {"pending", "running"}

TaskIds == 1..Len(tasks)

\* generate_course looks at course tasks only.
InScopeByType(ep, t) ==
    CASE ep = "generate_course" -> t.course = TheCourse /\ t.etype = "course"
      [] ep \in {"generate_module", "regenerate_module"} ->
            t.etype = "module" /\ t.eid = TheModule
      [] ep = "regenerate_quiz" -> t.etype = "quiz" /\ t.eid = TheQuiz

\* The filter each endpoint puts on GenerationTask.objects.
InScope(ep, t) ==
    CASE ep = "generate_course" -> t.course = TheCourse
      [] ep \in {"generate_module", "regenerate_module"} ->
            t.etype = "module" /\ t.eid = TheModule
      [] ep = "regenerate_quiz" -> t.etype = "quiz" /\ t.eid = TheQuiz

ExistingTasks(ep) ==
    {t \in TaskIds : InScope(ep, tasks[t]) /\ tasks[t].status \in ActiveStatuses}

\* .first() under Meta.ordering = ['-created_at']: the newest row.
First(S) == CHOOSE t \in S : \A u \in S : u <= t

Respond(ep, code, task) == resp' = [ep |-> ep, code |-> code, task |-> task]

\* get_object_or_404(..., owner=request.user) / get_queryset(): only the owner
\* finds the course, its module and its quiz.
Finds(u) == u = Owner

\* The part of a start endpoint up to and including `if existing_task:`.
StartCheck(ep, u) ==
    /\ IF ~Finds(u) \/ (ep = "regenerate_quiz" /\ quizSt = "none")
       THEN /\ Respond(ep, 404, 0)
            /\ UNCHANGED reqs
       ELSE IF ExistingTasks(ep) # {}
       THEN /\ Respond(ep, 400, First(ExistingTasks(ep)))
            /\ UNCHANGED reqs
       ELSE /\ Len(tasks) + Len(reqs) < MaxTasks
            /\ reqs' = Append(reqs, [ep |-> ep, user |-> u, seen |-> Len(tasks)])
            /\ UNCHANGED resp
    /\ UNCHANGED <<tasks, queue, courseSt, moduleSt, quizSt, writers, actors, notApi>>

RemoveAt(q, i) == [k \in 1..(Len(q) - 1) |-> IF k < i THEN q[k] ELSE q[k + 1]]

\* A new row, with who asked for it, whether a start endpoint checked for a
\* running task first, and how many rows existed when it looked.
NewTask(etype, eid, course, r) ==
    [etype |-> etype, eid |-> eid, course |-> course, status |-> "pending",
     by |-> r.user, checked |-> r.ep # "tasks_create", seen |-> r.seen]

\* The rest of a start endpoint: GenerationTask.objects.create(...), the
\* status save, .delay(...), 201.
StartCreate(ep, i, etype, eid) ==
    /\ i \in 1..Len(reqs)
    /\ reqs[i].ep = ep
    /\ tasks' = Append(tasks, NewTask(etype, eid, TheCourse, reqs[i]))
    /\ reqs' = RemoveAt(reqs, i)
    /\ queue' = queue \cup {Len(tasks) + 1}
    /\ Respond(ep, 201, Len(tasks) + 1)
    /\ UNCHANGED <<writers, actors, notApi>>

GenerateCourseCheck == \E u \in actors : StartCheck("generate_course", u)

GenerateCourseCreate ==
    \E i \in 1..Len(reqs) :
        /\ StartCreate("generate_course", i, "course", Null)
        /\ courseSt' = "generating"
        /\ UNCHANGED <<moduleSt, quizSt>>

GenerateModuleCheck == \E u \in actors : StartCheck("generate_module", u)

GenerateModuleCreate ==
    \E i \in 1..Len(reqs) :
        /\ StartCreate("generate_module", i, "module", TheModule)
        /\ moduleSt' = "generating"
        /\ UNCHANGED <<courseSt, quizSt>>

RegenerateModuleCheck == \E u \in actors : StartCheck("regenerate_module", u)

RegenerateModuleCreate ==
    \E i \in 1..Len(reqs) :
        /\ StartCreate("regenerate_module", i, "module", TheModule)
        /\ moduleSt' = "generating"
        /\ UNCHANGED <<courseSt, quizSt>>

RegenerateQuizCheck == \E u \in actors : StartCheck("regenerate_quiz", u)

RegenerateQuizCreate ==
    \E i \in 1..Len(reqs) :
        /\ StartCreate("regenerate_quiz", i, "quiz", TheQuiz)
        /\ quizSt' = "generating"
        /\ UNCHANGED <<courseSt, moduleSt>>

\* The entity ids a client can usefully send with each entity_type.
EntityIdFor(etype) ==
    CASE etype = "course" -> Null
      [] etype = "module" -> TheModule
      [] etype = "quiz" -> TheQuiz

\* The worker GenerationTaskViewSet.create starts for an entity_type.
LaunchedByCreate(etype) == etype \in {"course", "module"}

\* GenerationTaskViewSet.create: serializer.save() with the posted
\* entity_type, entity_id and course (any course id, or none), then .delay().
TasksCreate ==
    \E u \in actors, etype \in {"course", "module", "quiz"}, course \in {TheCourse, Null} :
        /\ course = Null => etype = "module"
        /\ Len(tasks) + Len(reqs) < MaxTasks
        /\ tasks' = Append(tasks, NewTask(etype, EntityIdFor(etype), course,
                                          [user |-> u, ep |-> "tasks_create",
                                           seen |-> Len(tasks)]))
        /\ queue' = IF LaunchedByCreate(etype) THEN queue \cup {Len(tasks) + 1} ELSE queue
        /\ Respond("tasks_create", 201, Len(tasks) + 1)
        /\ UNCHANGED <<reqs, courseSt, moduleSt, quizSt, writers, actors, notApi>>

\* Whether the run of task t works on the course: a course task on
\* task.course, a module or quiz task on the entity its id names.
Touches(t) == t.etype = "course" => t.course = TheCourse

\* A worker takes the task from the queue: task.status = "running".
WorkerPickUp ==
    \E t \in queue :
        /\ queue' = queue \ {t}
        /\ tasks' = [tasks EXCEPT ![t].status = "running"]
        /\ UNCHANGED <<reqs, courseSt, moduleSt, quizSt, writers, resp, actors, notApi>>

\* A running worker deletes and creates rows of the course.
WorkerWrite ==
    \E t \in TaskIds :
        /\ tasks[t].status = "running"
        /\ Touches(tasks[t])
        /\ writers' = writers \cup {tasks[t].by}
        /\ CASE tasks[t].etype = "course" ->
                    moduleSt' = "generating" /\ quizSt' = "none"
             [] tasks[t].etype = "module" ->
                    moduleSt' = "generating" /\ UNCHANGED quizSt
             [] tasks[t].etype = "quiz" ->
                    quizSt' = "generating" /\ UNCHANGED moduleSt
        /\ UNCHANGED <<tasks, reqs, queue, courseSt, resp, actors, notApi>>

\* The run ends: "completed" with its content stored, or "failed".
WorkerFinish ==
    \E t \in TaskIds, ok \in BOOLEAN :
        /\ tasks[t].status = "running"
        /\ ok => Touches(tasks[t])
        /\ tasks' = [tasks EXCEPT ![t].status = IF ok THEN "completed" ELSE "failed"]
        /\ writers' = IF ok THEN writers \cup {tasks[t].by} ELSE writers
        /\ CASE tasks[t].etype = "course" ->
                    /\ courseSt' = IF ok THEN "draft" ELSE courseSt
                    /\ moduleSt' = IF ok THEN "completed" ELSE moduleSt
                    /\ quizSt' = IF ok THEN "completed" ELSE quizSt
             [] tasks[t].etype = "module" ->
                    /\ moduleSt' = IF ok THEN "completed" ELSE "failed"
                    /\ UNCHANGED <<courseSt, quizSt>>
             [] tasks[t].etype = "quiz" ->
                    /\ quizSt' = IF ok THEN "completed" ELSE "failed"
                    /\ UNCHANGED <<courseSt, moduleSt>>
        /\ UNCHANGED <<reqs, queue, resp, actors, notApi>>

\* No task, no request: the course exists as a draft with its module and quiz.
ApiIdle ==
    /\ tasks = <<>>
    /\ reqs = <<>>
    /\ queue = {}
    /\ courseSt = "draft"
    /\ moduleSt = "completed"
    /\ quizSt = "completed"
    /\ writers = {}
    /\ resp = [ep |-> "none", code |-> 0, task |-> 0]
    /\ actors = {Owner}

\* No worker run in progress.
RunIdle ==
    /\ kind = "course"
    /\ pc = "done"
    /\ row = NewTaskRow
    /\ writes = <<>>
    /\ pubs = <<>>
    /\ modules = <<>>
    /\ quiz = NoQuiz
    /\ courseStatus = "draft"
    /\ tx = NoTx
    /\ nmod = 0 /\ idx = 0 /\ lessonsData = 0 /\ questionsData = 0
    /\ outlineCalls = 0
    /\ lessonCalls = [m \in 1..MaxModules |-> 0]
    /\ quizCalls = 0
    /\ structFailed = {}
    /\ llmFailed = FALSE
    /\ stages = <<>>
    /\ result = "none"
    /\ gone = {}

ApiNext ==
    \/ GenerateCourseCheck \/ GenerateCourseCreate
    \/ GenerateModuleCheck \/ GenerateModuleCreate
    \/ RegenerateModuleCheck \/ RegenerateModuleCreate
    \/ RegenerateQuizCheck \/ RegenerateQuizCreate
    \/ TasksCreate
    \/ WorkerPickUp \/ WorkerWrite \/ WorkerFinish

\* ------------------------------------------------------ progress broadcast
\* A second course, owned by the other user.
OtherCourse == "c2"
OwnerOf(c) == IF c = TheCourse THEN "alice" ELSE "bob"

\* Number of websocket clients.
MaxConsumers == 2
Consumers == 1..MaxConsumers

\* Course ids as a client can write them in the URL: the route accepts
\* [0-9a-fA-F-]+, so the canonical lower-case form and an upper-case form.
RawIds == {"c1", "C1", "c2", "C2"}

\* uuid.UUID(hex=value), as the ORM applies it to course_id=self.course_id:
\* hexadecimal digits are read without regard to case.
UUIDParse(raw) ==
    CASE raw \in {"c1", "C1"} -> "c1"
      [] raw \in {"c2", "C2"} -> "c2"

\* str(task.course_id): the canonical lower-case form.
UUIDStr(c) == c

\* f"course_{self.course_id}" with the id as it came in the URL.
ConsumerGroup(raw) == <<"course", raw>>

\* f"course_{course_id}" with course_id = str(task.course_id).
CourseGroup(c) == <<"course", UUIDStr(c)>>

Closed == [open |-> FALSE, raw |-> "none"]

\* [:10] in get_all_active_tasks
RecentLimit == 10

\* GenerationTask.objects.filter(course_id=self.course_id)
CourseTasksOf(raw) == {t \in TaskIds : tasks[t].course = UUIDParse(raw)}

\* get_all_active_tasks: .order_by("-created_at")[:10], the newest ten tasks
\* of the course, whatever their status.
GetAllActiveTasks(raw) ==
    {t \in CourseTasksOf(raw) :
        Cardinality({u \in CourseTasksOf(raw) : u > t}) < RecentLimit}

\* all_tasks_data = await self.get_all_active_tasks(); if all_tasks_data:
\* send {"type": "all_tasks_status", "data": all_tasks_data}
StatusReply(k, raw) ==
    lastStatus' = [to |-> k, sent |-> GetAllActiveTasks(raw) # {},
                   ids |-> GetAllActiveTasks(raw)]

\* GenerationConsumer.connect on the course route: group_add, accept, then
\* the status of the course's tasks.
WsConnect ==
    \E k \in Consumers, raw \in RawIds :
        /\ ~conns[k].open
        /\ conns' = [conns EXCEPT ![k] = [open |-> TRUE, raw |-> raw]]
        /\ inbox' = [inbox EXCEPT ![k] = {}]
        /\ StatusReply(k, raw)
        /\ UNCHANGED <<lastPub, notWs>>

\* GenerationConsumer.receive with {"type": "get_status"}
WsGetStatus ==
    \E k \in Consumers :
        /\ conns[k].open
        /\ StatusReply(k, conns[k].raw)
        /\ UNCHANGED <<conns, inbox, lastPub, notWs>>

\* GenerationConsumer.disconnect: group_discard.
WsDisconnect ==
    \E k \in Consumers :
        /\ conns[k].open
        /\ conns' = [conns EXCEPT ![k] = Closed]
        /\ UNCHANGED <<inbox, lastPub, lastStatus, notWs>>

\* The consumers in a group.
Members(group) == {k \in Consumers : conns[k].open /\ ConsumerGroup(conns[k].raw) = group}

\* send_progress_update(task_id, data): the course id is read from the task;
\* group_send to generation_<task_id>, which no consumer joins, and, when the
\* task has a course, to the course group; each member's generation_update
\* handler forwards the message to its client.
SendProgressUpdate ==
    \E t \in TaskIds :
        LET got == IF tasks[t].course = Null THEN {}
                   ELSE Members(CourseGroup(tasks[t].course))
        IN /\ inbox' = [k \in Consumers |->
                            IF k \in got
                            THEN inbox[k] \cup {[type |-> "generation_update", task |-> t]}
                            ELSE inbox[k]]
           /\ lastPub' = [task |-> t, conns |-> conns, got |-> got]
           /\ UNCHANGED <<conns, lastStatus, notWs>>

WsIdle ==
    /\ conns = [k \in Consumers |-> Closed]
    /\ inbox = [k \in Consumers |-> {}]
    /\ lastPub = [task |-> 0, conns |-> [k \in Consumers |-> Closed], got |-> {}]
    /\ lastStatus = [to |-> 0, sent |-> FALSE, ids |-> {}]

WsNext == WsConnect \/ WsDisconnect \/ WsGetStatus \/ SendProgressUpdate

\* ------------------------------------------- a course with many task rows
\* Largest number of task rows of the course.
MaxRows == 11

\* POST to the tasks endpoint with entity_type module and the course: a new
\* pending row, queued for generate_module_lessons. The endpoint looks for no
\* running task, so rows can pile up.
ManyTasksCreate ==
    /\ Len(tasks) < MaxRows
    /\ tasks' = Append(tasks, NewTask("module", TheModule, TheCourse,
                                      [user |-> Owner, ep |-> "tasks_create",
                                       seen |-> Len(tasks)]))
    /\ queue' = queue \cup {Len(tasks) + 1}
    /\ Respond("tasks_create", 201, Len(tasks) + 1)
    /\ UNCHANGED <<reqs, courseSt, moduleSt, quizSt, writers, actors, wsVars, statVars,
                   runVars, crudVars, courseVars, llmVars>>

\* One worker process takes the queued tasks in the order they were queued.
OneWorkerPickUp ==
    /\ queue # {}
    /\ \A t \in TaskIds : tasks[t].status # "running"
    /\ LET t == CHOOSE x \in queue : \A y \in queue : x <= y IN
          /\ queue' = queue \ {t}
          /\ tasks' = [tasks EXCEPT ![t].status = "running"]
    /\ UNCHANGED <<reqs, courseSt, moduleSt, quizSt, writers, resp, actors, wsVars,
                   statVars, runVars, crudVars, courseVars, llmVars>>

\* The run of the worker ends.
OneWorkerFinish ==
    \E t \in TaskIds :
        /\ tasks[t].status = "running"
        /\ tasks' = [tasks EXCEPT ![t].status = "completed"]
        /\ UNCHANGED <<reqs, queue, courseSt, moduleSt, quizSt, writers, resp, actors,
                       wsVars, statVars, runVars, crudVars, courseVars, llmVars>>

StatusNext ==
    \/ WsConnect \/ WsDisconnect \/ WsGetStatus
    \/ ManyTasksCreate \/ OneWorkerPickUp \/ OneWorkerFinish

\* ------------------------------------------------------------ CRUD layer
Courses == {TheCourse, OtherCourse}
GenerationStatuses == {"pending", "generating", "completed", "failed"}

CrudRespond(ep, code) == crudResp' = [ep |-> ep, code |-> code]

\* QuizViewSet has no perform_create: ModelViewSet.create saves what
\* QuizSerializer validated, and its writable `course` field accepts any
\* course that has no quiz yet (the one-to-one field must stay unique).
QuizCreate ==
    \E u \in Users, c \in Courses :
        IF \E q \in quizRows : q.course = c
        THEN /\ CrudRespond("quiz_create", 400)
             /\ UNCHANGED <<quizRows, moduleGs, notCrud>>
        ELSE /\ quizRows' = quizRows \cup {[course |-> c, by |-> u]}
             /\ CrudRespond("quiz_create", 201)
             /\ UNCHANGED <<moduleGs, notCrud>>

\* QuizViewSet update: get_object() looks in the requester's quizzes; the
\* serializer then writes the posted course.
QuizUpdate ==
    \E u \in Users, q \in quizRows, c \in Courses :
        IF OwnerOf(q.course) # u
        THEN /\ CrudRespond("quiz_update", 404)
             /\ UNCHANGED <<quizRows, moduleGs, notCrud>>
        ELSE IF \E o \in quizRows : o # q /\ o.course = c
        THEN /\ CrudRespond("quiz_update", 400)
             /\ UNCHANGED <<quizRows, moduleGs, notCrud>>
        ELSE /\ quizRows' = (quizRows \ {q}) \cup {[course |-> c, by |-> u]}
             /\ CrudRespond("quiz_update", 200)
             /\ UNCHANGED <<moduleGs, notCrud>>

\* QuizViewSet destroy: the requester's quizzes only.
QuizDelete ==
    \E u \in Users, q \in quizRows :
        IF OwnerOf(q.course) # u
        THEN /\ CrudRespond("quiz_delete", 404)
             /\ UNCHANGED <<quizRows, moduleGs, notCrud>>
        ELSE /\ quizRows' = quizRows \ {q}
             /\ CrudRespond("quiz_delete", 204)
             /\ UNCHANGED <<moduleGs, notCrud>>

\* perform_create reads serializer.validated_data[parent], a field the
\* serializer does not declare: KeyError, a 500, nothing saved.
CreateWithoutParent(ep) ==
    /\ CrudRespond(ep, 500)
    /\ UNCHANGED <<quizRows, moduleGs, notCrud>>

\* ModuleViewSet.perform_create: validated_data["course"]
ModuleCreate == CreateWithoutParent("module_create")
\* LessonViewSet.perform_create: validated_data["module"]
LessonCreate == CreateWithoutParent("lesson_create")
\* QuestionViewSet.perform_create: validated_data["quiz"]
QuestionCreate == CreateWithoutParent("question_create")
\* AnswerViewSet.perform_create: validated_data["question"]
AnswerCreate == CreateWithoutParent("answer_create")

\* ModuleViewSet update with ModuleCreateSerializer.update: the requester's
\* modules only; title, description, order, generation_status and lessons are
\* written, the course is not.
ModuleUpdate ==
    \E u \in Users, c \in Courses, gs \in GenerationStatuses :
        IF OwnerOf(c) # u
        THEN /\ CrudRespond("module_update", 404)
             /\ UNCHANGED <<quizRows, moduleGs, notCrud>>
        ELSE /\ moduleGs' = [moduleGs EXCEPT ![c] = gs]
             /\ CrudRespond("module_update", 200)
             /\ UNCHANGED <<quizRows, notCrud>>

\* Each course has its module; no quiz has been stored yet.
CrudIdle ==
    /\ quizRows = {}
    /\ moduleGs = [c \in Courses |-> "completed"]
    /\ crudResp = [ep |-> "none", code |-> 0]

CrudNext ==
    \/ QuizCreate \/ QuizUpdate \/ QuizDelete
    \/ ModuleCreate \/ LessonCreate \/ QuestionCreate \/ AnswerCreate
    \/ ModuleUpdate

\* ------------------------------------------------------- LLM configurations
\* Number of LLMConfig rows.
MaxConfigs == 3
ConfigIds == 1..MaxConfigs

NoConfig == [exists |-> FALSE, active |-> FALSE]
NoSave == [pc |-> "idle", active |-> FALSE]

\* LLMConfig.objects.filter(is_active=True).exclude(pk=c)
OtherActive(c) == {o \in ConfigIds : o # c /\ configs[o].exists /\ configs[o].active}

\* .update(is_active=False) on every other active row, when the instance being
\* saved is active.
DeactivateOthers(c, active) ==
    configs' = [o \in ConfigIds |->
                   IF active /\ o \in OtherActive(c)
                   THEN [configs[o] EXCEPT !.active = FALSE]
                   ELSE configs[o]]

\* .first() under Meta.ordering = ['-created_at']: the newest other active row.
FirstActive(c) == CHOOSE o \in OtherActive(c) : \A x \in OtherActive(c) : x <= o

\* LLMConfigSerializer.validate: the first other active config is loaded, set
\* inactive and saved; serializer.save() follows.
LlmSerializerValidate ==
    \E c \in ConfigIds, active \in BOOLEAN :
        /\ saves[c].pc = "idle"
        /\ configs' = IF active /\ OtherActive(c) # {}
                      THEN [configs EXCEPT ![FirstActive(c)].active = FALSE]
                      ELSE configs
        /\ saves' = [saves EXCEPT ![c] = [pc |-> "save", active |-> active]]
        /\ UNCHANGED notLlm

\* LLMConfigAdmin.save_model: the other active configs are updated to
\* inactive; super().save_model() then calls obj.save().
LlmAdminSaveModel ==
    \E c \in ConfigIds, active \in BOOLEAN :
        /\ saves[c].pc = "idle"
        /\ DeactivateOthers(c, active)
        /\ saves' = [saves EXCEPT ![c] = [pc |-> "save", active |-> active]]
        /\ UNCHANGED notLlm

\* LLMConfig.save, first statement: if self.is_active, the update of the
\* other rows. A call from the serializer or the admin arrives here as does a
\* direct config.save().
LlmSaveDeactivate ==
    \E c \in ConfigIds, active \in BOOLEAN :
        /\ \/ saves[c].pc = "idle"
           \/ saves[c].pc = "save" /\ saves[c].active = active
        /\ DeactivateOthers(c, active)
        /\ saves' = [saves EXCEPT ![c] = [pc |-> "write", active |-> active]]
        /\ UNCHANGED notLlm

\* LLMConfig.save, second statement: super().save() writes the row.
LlmSaveWrite ==
    \E c \in ConfigIds :
        /\ saves[c].pc = "write"
        /\ configs' = [configs EXCEPT ![c] = [exists |-> TRUE, active |-> saves[c].active]]
        /\ saves' = [saves EXCEPT ![c] = NoSave]
        /\ UNCHANGED notLlm

\* No LLMConfig row, no save under way.
LlmIdle ==
    /\ configs = [c \in ConfigIds |-> NoConfig]
    /\ saves = [c \in ConfigIds |-> NoSave]

LlmNext ==
    \/ LlmSerializerValidate \/ LlmAdminSaveModel
    \/ LlmSaveDeactivate \/ LlmSaveWrite

\* ------------------------------------------------------------------ courses
\* Largest number of courses.
MaxCourses == 2

\* Course.STATUS_CHOICES
CourseStatuses == {"draft", "published", "generating", "archived"}
\* The status a client sends when it creates or updates a course.
PostedStatuses == {"draft", "published"}
\* ?status= values of a course list request.
StatusParams == {"all", "published"}
\* The view sets under a course.
ChildKinds == {"module", "lesson", "quiz", "question", "answer"}

CourseIds == 1..Len(courseRows)

\* No owner filter.
OwnedByAnyone(u) == CourseIds

\* filter(owner=self.request.user), and <path to course>__owner in the others
OwnedBy(u) == {c \in CourseIds : courseRows[c].owner = u}

\* CourseViewSet.get_queryset
CourseQueryset(u) == OwnedBy(u)

\* CourseViewSet list: the view set declares no filter, search or ordering
\* fields, so what the query string says does not change which rows come back.
CourseList(u, status) == CourseQueryset(u)

\* The get_queryset of Module, Lesson, Quiz, Question and Answer view sets:
\* rows under the requester's courses, narrowed to a parent when one is
\* named (0: none). A course that a run has filled holds one row of each kind,
\* named here by its course.
UnderOwnedCourse(u, parent) ==
    {c \in OwnedBy(u) : courseRows[c].content /\ (parent = 0 \/ parent = c)}

ModuleQueryset(u, parent) == UnderOwnedCourse(u, parent)
LessonQueryset(u, parent) == UnderOwnedCourse(u, parent)
QuizQueryset(u, parent) == UnderOwnedCourse(u, parent)
QuestionQueryset(u, parent) == UnderOwnedCourse(u, parent)
AnswerQueryset(u, parent) == UnderOwnedCourse(u, parent)

\* GenerationTaskViewSet.get_queryset: filter(course__owner=self.request.user)
TaskQueryset(u) == {t \in 1..Len(courseTasks) : courseTasks[t].course \in OwnedBy(u)}

Queryset(what, u, parent) ==
    CASE what = "course" -> CourseQueryset(u)
      [] what = "module" -> ModuleQueryset(u, parent)
      [] what = "lesson" -> LessonQueryset(u, parent)
      [] what = "quiz" -> QuizQueryset(u, parent)
      [] what = "question" -> QuestionQueryset(u, parent)
      [] what = "answer" -> AnswerQueryset(u, parent)
      [] what = "task" -> TaskQueryset(u)

\* The request and its response: the operation, who asked, the status the
\* request named (query string or body; "none" without one), the parent it
\* named, the ids of the rows in the response.
CourseRespond(op, u, what, status, parent, ids) ==
    lastResp' = [op |-> op, user |-> u, kind |-> what, status |-> status,
                 parent |-> parent, ids |-> ids]

\* The handler runs on every save of a course.
SignalFiresAlways(created) == TRUE

\* trigger_course_generation: if not created: return
SignalFires(created) == created

\* Course.save() of row i followed by the post_save receiver
\* trigger_course_generation: for a new course the status becomes
\* "generating" (that save runs the receiver again with created False), a
\* pending course task is created and handed to generate_course_content.delay.
CourseSaved(i, created, r, taskRows) ==
    /\ courseRows' =
          [c \in 1..(IF created THEN Len(courseRows) + 1 ELSE Len(courseRows)) |->
              IF c = i
              THEN (IF SignalFires(created) THEN [r EXCEPT !.status = "generating"] ELSE r)
              ELSE courseRows[c]]
    /\ courseTasks' =
          IF SignalFires(created)
          THEN Append(taskRows, [course |-> i, etype |-> "course", status |-> "pending"])
          ELSE taskRows
    /\ courseRuns' =
          IF SignalFires(created)
          THEN Append(courseRuns, Len(taskRows) + 1)
          ELSE courseRuns

\* CourseViewSet create: CourseCreateSerializer with the posted status,
\* perform_create saves with owner=request.user.
CourseCreate ==
    \E u \in Users, st \in PostedStatuses :
        /\ Len(courseRows) < MaxCourses
        /\ CourseSaved(Len(courseRows) + 1, TRUE,
                       [owner |-> u, status |-> st, content |-> FALSE], courseTasks)
        /\ CourseRespond("create", u, "course", st, 0, {Len(courseRows) + 1})
        /\ UNCHANGED notCourse

\* A request that sets the status of one course: get_object() finds the
\* course in the requester's queryset or answers 404; then course.save().
SetStatus(op, u, i, st) ==
    /\ i \in CourseIds
    /\ IF i \in CourseQueryset(u)
       THEN /\ CourseSaved(i, FALSE, [courseRows[i] EXCEPT !.status = st], courseTasks)
            /\ CourseRespond(op, u, "course", st, 0, {i})
       ELSE /\ CourseRespond(op, u, "course", st, 0, {})
            /\ UNCHANGED <<courseRows, courseTasks, courseRuns>>
    /\ UNCHANGED notCourse

CoursePublish == \E u \in Users, i \in CourseIds : SetStatus("publish", u, i, "published")
CourseArchive == \E u \in Users, i \in CourseIds : SetStatus("archive", u, i, "archived")
CourseUnarchive == \E u \in Users, i \in CourseIds : SetStatus("unarchive", u, i, "draft")

\* CourseViewSet update with CourseCreateSerializer: title, description, status
CourseUpdate ==
    \E u \in Users, i \in CourseIds, st \in PostedStatuses : SetStatus("update", u, i, st)

\* The run of a launched course task completes: the modules, the lessons and
\* the quiz are stored, course.status = "draft"; course.save(); the task row
\* is saved as completed.
CourseWorkerEnds ==
    \E k \in 1..Len(courseRuns) :
        LET t == courseRuns[k]
            i == courseTasks[t].course
        IN /\ courseTasks[t].status = "pending"
           /\ CourseSaved(i, FALSE,
                          [courseRows[i] EXCEPT !.status = "draft", !.content = TRUE],
                          [courseTasks EXCEPT ![t].status = "completed"])
           /\ UNCHANGED <<lastResp, notCourse>>

\* A list request of any of the view sets.
ListObjects ==
    \E u \in Users, what \in ChildKinds \cup {"course", "task"},
       status \in StatusParams, parent \in 0..1 :
        /\ what # "course" => status = "all"
        /\ what # "module" => parent = 0
        /\ CourseRespond("list", u, what, status, parent,
                         IF what = "course" THEN CourseList(u, status)
                         ELSE Queryset(what, u, parent))
        /\ UNCHANGED <<courseRows, courseTasks, courseRuns, notCourse>>

\* A retrieve request for one course: get_object() on the queryset.
CourseRetrieve ==
    \E u \in Users, i \in CourseIds :
        /\ CourseRespond("retrieve", u, "course", "none", 0, {i} \cap CourseQueryset(u))
        /\ UNCHANGED <<courseRows, courseTasks, courseRuns, notCourse>>

\* No course yet.
CourseIdle ==
    /\ courseRows = <<>>
    /\ courseTasks = <<>>
    /\ courseRuns = <<>>
    /\ lastResp = [op |-> "none", user |-> "none", kind |-> "none", status |-> "none",
                   parent |-> 0, ids |-> {}]

CourseNext ==
    \/ CourseCreate \/ CoursePublish \/ CourseArchive \/ CourseUnarchive \/ CourseUpdate
    \/ CourseWorkerEnds \/ ListObjects \/ CourseRetrieve

\* --------------------------------------------------------- initial states
\* Requests of the course's owner.
ApiInit == ApiIdle /\ RunIdle /\ WsIdle /\ CrudIdle /\ CourseIdle /\ LlmIdle

\* Requests of every user.
OwnInit ==
    /\ tasks = <<>> /\ reqs = <<>> /\ queue = {}
    /\ courseSt = "draft" /\ moduleSt = "completed" /\ quizSt = "completed"
    /\ writers = {}
    /\ resp = [ep |-> "none", code |-> 0, task |-> 0]
    /\ actors = Users
    /\ RunIdle /\ WsIdle /\ CrudIdle /\ CourseIdle /\ LlmIdle

WsTask(course) ==
    [etype |-> "course", eid |-> Null, course |-> course, status |-> "running",
     by |-> OwnerOf(course), checked |-> TRUE, seen |-> 0]

\* Three running tasks: one per course and one without a course.
WsInit ==
    /\ tasks = <<WsTask(TheCourse), WsTask(OtherCourse),
                 [WsTask(TheCourse) EXCEPT !.course = Null, !.etype = "module",
                                           !.eid = TheModule, !.checked = FALSE]>>
    /\ reqs = <<>> /\ queue = {}
    /\ courseSt = "generating" /\ moduleSt = "generating" /\ quizSt = "completed"
    /\ writers = {}
    /\ resp = [ep |-> "none", code |-> 0, task |-> 0]
    /\ actors = Users
    /\ WsIdle /\ RunIdle /\ CrudIdle /\ CourseIdle /\ LlmIdle

CrudInit == CrudIdle /\ RunIdle /\ ApiIdle /\ WsIdle /\ CourseIdle /\ LlmIdle

\* No course, no task, nobody connected.
CourseInit == CourseIdle /\ RunIdle /\ ApiIdle /\ WsIdle /\ CrudIdle /\ LlmIdle

\* No LLMConfig row.
LlmInit == LlmIdle /\ RunIdle /\ ApiIdle /\ WsIdle /\ CrudIdle /\ CourseIdle

\* The course has no task yet and no client is connected.
StatusInit == ApiIdle /\ WsIdle /\ RunIdle /\ CrudIdle /\ CourseIdle /\ LlmIdle

\* A task row as its creator left it, the worker about to pick it up.
RunInit ==
    /\ kind \in Kinds
    /\ pc = CASE kind = "course" -> "c_start"
              [] kind = "module" -> "m_start"
              [] kind = "quiz" -> "q_start"
    /\ row = NewTaskRow
    /\ writes = <<>>
    /\ pubs = <<>>
    /\ modules \in {<<>>, <<ModuleRow(2, "completed")>>}
    /\ quiz \in {NoQuiz, [exists |-> TRUE, gs |-> "completed", questions |-> 2]}
    /\ (kind = "module" => modules # <<>>)
    /\ (kind = "quiz" => quiz.exists)
    /\ courseStatus = "generating"
    /\ tx = NoTx
    /\ nmod = 0 /\ idx = 0 /\ lessonsData = 0 /\ questionsData = 0
    /\ outlineCalls = 0
    /\ lessonCalls = [m \in 1..MaxModules |-> 0]
    /\ quizCalls = 0
    /\ structFailed = {}
    /\ llmFailed = FALSE
    /\ stages = <<>>
    /\ result = "none"
    /\ gone = {}
    /\ ApiIdle /\ WsIdle /\ CrudIdle /\ CourseIdle /\ LlmIdle

RunNext ==
    \/ CourseStart \/ CoursePubInitial \/ CoursePubClearing \/ CourseClear
    \/ CourseSaveOutlineStart \/ CoursePubOutlineStart \/ CourseOutlineCall
    \/ CourseSaveOutlineDone \/ CoursePubOutlineDone \/ CourseBeginModules
    \/ CourseModuleCreate \/ CourseLessonsCreate \/ CourseModuleDone
    \/ CourseModuleSave \/ CourseModulePub
    \/ CourseSaveQuizStart \/ CoursePubQuizStart \/ CourseQuizCreate \/ CourseQuizCall
    \/ CourseQuestionsCreate \/ CourseQuizDone \/ CourseSaveQuizDone \/ CoursePubQuizDone
    \/ CourseSaveFinalizing \/ CourseSetDraft \/ CourseComplete \/ CoursePubCompleted
    \/ CourseHandlerMark \/ CourseHandlerPub
    \/ LessonsStructuredCall \/ LessonsFallbackCall
    \/ ModuleStart \/ ModulePubStart \/ ModuleMarkGenerating \/ ModuleTxBody
    \/ ModuleTxPub \/ ModuleTxCommit \/ ModuleMarkCompleted \/ ModuleComplete
    \/ ModulePubCompleted \/ ModuleHandlerMark \/ ModuleHandlerEntity \/ ModuleHandlerPub
    \/ QuizStart \/ QuizPubStart \/ QuizMarkGenerating \/ QuizCall \/ QuizPubCreating
    \/ QuizTxBody \/ QuizTxPub \/ QuizTxCommit \/ QuizMarkCompleted \/ QuizComplete
    \/ QuizPubCompleted \/ QuizHandlerMark \/ QuizHandlerEntity \/ QuizHandlerPub
    \/ Raise \/ HandlerSwallow \/ ReturnSuccess \/ ReturnFailure

vars == <<runVars, apiVars, wsVars, crudVars, courseVars, llmVars, statVars>>

SpecRun == RunInit /\ [][RunNext]_vars

\* A worker that is scheduled takes its next step; every LLM call returns or
\* raises.
SpecRunFair == RunInit /\ [][RunNext]_vars /\ WF_vars(RunNext)

SpecApi == ApiInit /\ [][ApiNext]_vars

SpecOwn == OwnInit /\ [][ApiNext]_vars

SpecWs == WsInit /\ [][WsNext]_vars

SpecCrud == CrudInit /\ [][CrudNext]_vars

SpecCourses == CourseInit /\ [][CourseNext]_vars

SpecLlm == LlmInit /\ [][LlmNext]_vars

SpecStatus == StatusInit /\ [][StatusNext]_vars

\* ================================================================ claims
AllStages == <<"outline", "modules", "quiz", "finalize">>
IsPrefix(a, b) == Len(a) <= Len(b) /\ \A i \in 1..Len(a) : a[i] = b[i]

\* C1: within one run of any worker, the progress values written to the task
\* row are non-decreasing, and so are the progress values published for it,
\* whatever the LLM returns and wherever the run fails.
C1_ProgressMonotonic ==
    /\ \A i, j \in 1..Len(writes) : i < j => writes[i] <= writes[j]
    /\ \A i, j \in 1..Len(pubs) :
          (i < j /\ pubs[i].progress # Absent /\ pubs[j].progress # Absent)
              => pubs[i].progress <= pubs[j].progress

\* C2: in each worker a raised exception is caught; the row ends "failed" with
\* an error_message holding the exception message and the traceback, a
\* "failed" event is published, and the worker returns a failure result.
C2_FailureHandled ==
    /\ row.status = "failed" => {"message", "traceback"} \subseteq row.err
    /\ result = "failure" =>
          /\ row.status = "failed"
          /\ \E i \in 1..Len(pubs) : pubs[i].status = "failed"

\* C3: a course run goes through outline, modules/lessons, quiz, finalize in
\* that order: no module is created before the outline call has returned, the
\* quiz is created only after every module and its lessons are, the course
\* becomes "draft" and the task "completed" only after the questions are
\* stored, and a completed run has entered each stage exactly once.
C3_StageOrder ==
    kind = "course" =>
        /\ IsPrefix(stages, AllStages)
        /\ (stages # <<>> /\ modules # <<>>) =>
              /\ outlineCalls = 1
              /\ Len(stages) >= 2
              /\ Len(modules) <= nmod
        /\ (stages # <<>> /\ quiz.exists) =>
              /\ Len(stages) >= 3
              /\ Len(modules) = nmod
              /\ \A m \in 1..Len(modules) :
                    modules[m].gs = "completed" /\ modules[m].lessons >= 1
        /\ (courseStatus = "draft" \/ row.status = "completed") =>
              /\ stages = AllStages
              /\ quizCalls = 1
              /\ quiz.exists /\ quiz.gs = "completed"
              /\ quiz.questions = questionsData
        /\ result = "success" =>
              /\ stages = AllStages
              /\ courseStatus = "draft" /\ row.status = "completed"

C3_Witness ==
    /\ kind = "course" /\ result = "success"
    /\ nmod >= 2 /\ Len(modules) = nmod
    /\ quiz.questions >= 1

\* C4 as stated: no LLM call is ever made a second time for the same unit of
\* work, a completed course run has made exactly one call per unit, and a call
\* that fails makes the run fail.
C4_NoSecondCall ==
    /\ outlineCalls <= 1 /\ quizCalls <= 1
    /\ \A m \in 1..MaxModules : lessonCalls[m] <= 1
    /\ (kind = "course" /\ result = "success") =>
          /\ outlineCalls = 1 /\ quizCalls = 1
          /\ \A m \in 1..nmod : lessonCalls[m] = 1
    /\ (llmFailed \/ structFailed # {}) => result # "success"

\* C4 amended: the outline call and the quiz call are made at most once (exactly
\* once in a completed course run); for a module the structured lesson call is
\* made once and is followed by one fallback call exactly when it failed; a
\* failing outline, quiz or fallback call ends the run in its handler.
C4_AtMostOneFallback ==
    /\ outlineCalls <= 1 /\ quizCalls <= 1
    /\ \A m \in 1..MaxModules :
          /\ lessonCalls[m] <= 2
          /\ lessonCalls[m] = 2 => m \in structFailed
          /\ (m \in structFailed /\ pc # "lessons_fallback") => lessonCalls[m] = 2
    /\ (kind = "course" /\ result = "success") =>
          /\ outlineCalls = 1 /\ quizCalls = 1
          /\ \A m \in 1..MaxModules :
                lessonCalls[m] = IF m > nmod THEN 0 ELSE IF m \in structFailed THEN 2 ELSE 1
    /\ llmFailed => (result # "success" /\ pc \notin (BodyPcs \cup LlmPcs))

C4_Witness ==
    /\ kind = "course" /\ result = "success"
    /\ \E m \in 1..nmod : lessonCalls[m] = 2
    /\ \E m \in 1..nmod : lessonCalls[m] = 1

\* C7: every published event finds the task row already holding the status,
\* stage and progress the event carries.
C7_RowMatchesEvent ==
    \A i \in 1..Len(pubs) :
        /\ pubs[i].status = pubs[i].rowStatus
        /\ pubs[i].stage # "absent" => pubs[i].stage = pubs[i].rowStage
        /\ pubs[i].progress # Absent => pubs[i].progress = pubs[i].rowProgress

C16_ProgressInRange ==
    /\ \A i \in 1..Len(writes) : writes[i] \in 0..100
    /\ \A i \in 1..Len(pubs) :
          pubs[i].progress # Absent => pubs[i].progress \in 0..100

\* C19: a run that a worker picked up ends, and when it has ended its task row
\* is "completed" or "failed", never "pending" or "running".
C19_EndsTerminal ==
    /\ <>(pc = "done")
    /\ [](pc = "done" => row.status \in {"completed", "failed"})

\* C20: once the run has saved "completed" no later step of it makes the row
\* "failed", and a "failed" row never becomes "running" or "completed" again.
C20_TerminalStays ==
    [][ /\ row.status = "completed" => row'.status = "completed"
        /\ row.status = "failed" => row'.status = "failed" ]_vars

\* The start endpoint that creates tasks of an entity type.
C5_EndpointOf(etype) ==
    CASE etype = "course" -> "generate_course"
      [] etype = "module" -> "generate_module"
      [] etype = "quiz" -> "regenerate_quiz"

\* C5: the check is the only guard and it is not atomic: a task created by a
\* start endpoint is active together with an older active task of its scope
\* only if its check ran before the older row existed; nothing else keeps two
\* tasks of the course from running at once.
C5_OnlyTheCheckGuards ==
    \A a, b \in TaskIds :
        ( /\ a < b
          /\ tasks[b].checked
          /\ InScope(C5_EndpointOf(tasks[b].etype), tasks[a])
          /\ tasks[a].status \in {"pending", "running"}
          /\ tasks[b].status \in {"pending", "running"} )
        => tasks[b].seen < a

\* Two generate_course requests interleave and both runs are running.
C5_Witness ==
    \E a, b \in TaskIds :
        /\ a # b
        /\ tasks[a].course = TheCourse /\ tasks[b].course = TheCourse
        /\ tasks[a].etype = "course" /\ tasks[b].etype = "course"
        /\ tasks[a].checked /\ tasks[b].checked
        /\ tasks[a].status = "running" /\ tasks[b].status = "running"

\* The pending or running tasks in the scope the claim gives each endpoint.
C6_Blocking(ep) ==
    {t \in TaskIds :
        /\ tasks[t].status \in {"pending", "running"}
        /\ CASE ep = "generate_course" -> tasks[t].course = TheCourse
             [] ep \in {"generate_module", "regenerate_module"} ->
                    tasks[t].etype = "module" /\ tasks[t].eid = TheModule
             [] ep = "regenerate_quiz" ->
                    tasks[t].etype = "quiz" /\ tasks[t].eid = TheQuiz}

\* C6: a start endpoint lets a request through only when no pending or running
\* task is in its scope; otherwise it answers 400 with the id of such a task,
\* creates no row, launches no worker and changes no status.
C6_RefusesWhenActive ==
    [][ /\ (resp' # resp /\ resp'.code = 400) =>
              /\ resp'.task \in C6_Blocking(resp'.ep)
              /\ UNCHANGED <<tasks, reqs, queue, courseSt, moduleSt, quizSt>>
        /\ Len(reqs') > Len(reqs) => C6_Blocking(reqs'[Len(reqs')].ep) = {}
      ]_vars

\* A request was refused because of a pending task that no worker has started.
C6_Witness ==
    /\ resp.code = 400
    /\ resp.task \in TaskIds
    /\ tasks[resp.task].status = "pending"
    /\ resp.ep = "regenerate_quiz"

\* C18: every task created through the tasks endpoint has a worker launched
\* for it: while it is still "pending" it is waiting in the worker queue.
C18_CreatedTasksAreLaunched ==
    \A t \in TaskIds :
        (~tasks[t].checked /\ tasks[t].status = "pending") => t \in queue

\* C9: every task on the course, its module or its quiz was created by the
\* course's owner, and only the owner's runs rewrite the course's content.
C9_OnlyOwnerStartsRuns ==
    /\ \A t \in TaskIds :
          (tasks[t].course = TheCourse \/ tasks[t].eid \in {TheModule, TheQuiz})
              => tasks[t].by = Owner
    /\ writers \subseteq {Owner}

\* C8: an event published for a task with a course reached every consumer that
\* was connected for that course, and no consumer connected for another course.
C8_GroupedByCourse ==
    lastPub.task # 0 =>
        \A k \in Consumers :
            LET c == lastPub.conns[k] IN
            /\ (c.open /\ tasks[lastPub.task].course # Null
                       /\ UUIDParse(c.raw) = tasks[lastPub.task].course)
                  => k \in lastPub.got
            /\ k \in lastPub.got
                  => (c.open /\ UUIDParse(c.raw) = tasks[lastPub.task].course)

\* C10: every quiz is under a course of the user whose request put it there,
\* and a create the layer rejects stores nothing.
C10_NoForeignChildren ==
    \A q \in quizRows : OwnerOf(q.course) = q.by

C12_KeepsCreatedStatus ==
    /\ [][ /\ Len(courseRows') > Len(courseRows) =>
                courseRows'[Len(courseRows')].status = lastResp'.status
           /\ \A c \in CourseIds :
                courseRows'[c].status # courseRows[c].status =>
                    /\ lastResp'.op \in {"publish", "archive", "unarchive", "update"}
                    /\ lastResp'.ids = {c}
                    /\ lastResp'.status = courseRows'[c].status ]_vars
    /\ [](\A u \in Users, s \in StatusParams \ {"all"} :
             CourseList(u, s) =
                 {c \in CourseIds : courseRows[c].owner = u /\ courseRows[c].status = s})

C15_AtMostOneActive ==
    Cardinality({c \in ConfigIds : configs[c].exists /\ configs[c].active}) <= 1

\* C17: the all_tasks_status message of a connect or a get_status holds every
\* pending or running task of the course, however many tasks it has.
C17_EveryActiveTaskSent ==
    \A raw \in RawIds :
        \A t \in CourseTasksOf(raw) :
            tasks[t].status \in {"pending", "running"} => t \in GetAllActiveTasks(raw)

\* p = floor(20 + k*50/n), said without division.
C21_IsFloor(p, k, n) == p * n <= (20 * n) + (50 * k) /\ (20 * n) + (50 * k) < (p + 1) * n

\* C21: in a course run the progress stored in the task row is within 0..20
\* until the module stage begins, is floor(20 + k*50/N) once k of the N modules
\* have been saved (70 when the quiz stage is about to begin), is within 75..90
\* in the quiz stage and within 95..100 in finalization; and current_stage is
\* "creating" exactly when the progress is at most 70, "reviewing" exactly when
\* it is within 75..90 and "completed" exactly when it is 95 or more.
C21_StageRanges ==
    kind = "course" =>
        LET last == IF stages = <<>> THEN "none" ELSE stages[Len(stages)] IN
        /\ last \in {"none", "outline"} => row.progress \in 0..20
        /\ (last = "modules" /\ nmod = 0) => row.progress = 20
        /\ (last = "modules" /\ nmod > 0) =>
              \E k \in 0..nmod :
                  /\ C21_IsFloor(row.progress, k, nmod)
                  /\ pc = "c_mod_pub" => k = idx
                  /\ pc \in {"c_mod_create", "c_mod_save"} => k = idx - 1
                  /\ pc = "c_save75" => (k = nmod /\ row.progress = 70)
        /\ last = "quiz" => row.progress \in 75..90
        /\ last = "finalize" => row.progress \in 95..100
        /\ row.stage \in {"creating", "reviewing", "completed"}
        /\ row.stage = "creating" <=> row.progress <= 70
        /\ row.stage = "reviewing" <=> row.progress \in 75..90
        /\ row.stage = "completed" <=> row.progress >= 95

\* A course run over three modules has ended well: 36 and 53 were saved after
\* the first and the second module, and the row ends at 100.
C21_Witness ==
    /\ kind = "course"
    /\ pc = "done"
    /\ nmod = 3
    /\ row.status = "completed"
    /\ row.progress = 100
    /\ \E i \in 1..Len(writes) : writes[i] = 36
    /\ \E i \in 1..Len(writes) : writes[i] = 53
====
